---- MODULE Spec2Model ----
(***************************************************************************)
(* A model of the scaling suggestion engine of sre-agent:                  *)
(*   - src/src/data_models.py             the pydantic suggestion models   *)
(*   - src/src/suggestion_engines/scaling_engine.py                        *)
(*         _generate_static_suggestion and get_suggestion                  *)
(*   - src/src/utils/llm_tools.py         ToolRegistry, ScalingToolsManager*)
(*   - src/src/mcp_client/dynatrace_mcp_client.py and src/src/main.py      *)
(*         the data-availability classifier                                *)
(*   - src/src/main.py                    _infer_application_type          *)
(*   - src/src/utils/secrets_manager.py   get_secret and its cache         *)
(*                                                                         *)
(* Python values are tagged records: I(n) an int, S(s) a str, NumStr(n)    *)
(* the str that spells the int n, Dct(d) a dict, None, and Missing for a   *)
(* key that is not in a dict.  A dict is a function from its keys.         *)
(***************************************************************************)
EXTENDS Integers, Sequences, FiniteSets, TLC

VARIABLES
    pc,                 \* where the modelled call stands
    config,             \* the configuration mapping passed to the engine
    app_context,        \* get_suggestion's app_context
    deployment_context, \* get_suggestion's deployment_context
    static_suggestion,  \* the local static_suggestion of get_suggestion
    llm_client,         \* "none" | "built": _get_llm_client() has returned
    mcp_client,         \* "none" | "built": _get_mcp_client() has returned
    llm_calls,          \* number of llm_client.call invocations so far
    mcp_calls,          \* number of invocations made on the mcp client
    messages,           \* the conversation list of get_suggestion
    pending,            \* tool calls of the current response not yet read
    last_call,          \* the tool call the loop read last
    result,             \* what the modelled call returned (or NoResult)
    outcome,            \* how the orchestration loop ended
    registry,           \* ToolRegistry._tools and ._handlers (their keys)
    exec_result,        \* what the last ToolRegistry.execute_tool did
    av_pc,              \* where _check_data_availability stands
    entity_id,          \* the local entity_id of check_data_availability
    historical_data,    \* the local historical_data: metric -> data_points
    days_available,     \* the local days_available, in hundredths of a day
    completeness,       \* the local completeness, in tenths of a percent
    availability,       \* what _check_data_availability returned
    av_error,           \* the exception an except clause caught on the way (or None)
    selector_log,       \* the entity queries of discover_entity so far, in order
    CACHED_SECRETS,     \* the module global of secrets_manager
    secret_string,      \* the SecretString the backend holds
    sm_pc,              \* each caller of get_secret: where it stands
    sm_fetched,         \* each caller's local value on its way to the cache
    sm_returned,        \* each caller: what its last get_secret returned
    sm_calls,           \* each caller: get_secret calls begun
    backend_log,        \* the outcomes of client.get_secret_value, in order
    inf_pc,             \* where the inference of the application type stands
    app_name,           \* the application name of the request, its characters
    app_type            \* the application_type _infer_application_type returned

availability_vars ==
    <<av_pc, entity_id, historical_data, days_available, completeness, availability,
      av_error, selector_log>>

secrets_vars ==
    <<CACHED_SECRETS, secret_string, sm_pc, sm_fetched, sm_returned, sm_calls, backend_log>>

inference_vars == <<inf_pc, app_name, app_type>>

other_vars == <<availability_vars, secrets_vars, inference_vars>>

vars == <<pc, config, app_context, deployment_context, static_suggestion,
          llm_client, mcp_client, llm_calls, mcp_calls, messages, pending,
          last_call, result, outcome, registry, exec_result,
          availability_vars, secrets_vars, inference_vars>>

engine_vars ==
    <<pc, config, app_context, deployment_context, static_suggestion,
      llm_client, mcp_client, llm_calls, mcp_calls, messages, pending,
      last_call, result, outcome, registry, exec_result>>

(***************************************************************************)
(* Bounds of the model.                                                    *)
(***************************************************************************)
MaxReplica == 2       \* replica counts range over 1..MaxReplica (0 too for the reasoner)
MaxCalls == 3         \* tool calls in one reasoning response
MaxToolCalls == 5     \* tool calls the reasoning backend requests in one conversation

(***************************************************************************)
(* Python values and dict operations.                                      *)
(***************************************************************************)
None == [t |-> "none"]
Missing == [t |-> "missing"]
I(n) == [t |-> "int", v |-> n]
S(s) == [t |-> "str", v |-> s]
NumStr(n) == [t |-> "numstr", v |-> n]
Dct(d) == [t |-> "dict", v |-> d]
EmptyDict == [k \in {} |-> None]

\* dict.get(k, default)
Get(d, k, default) == IF k \in DOMAIN d THEN d[k] ELSE default

\* {**a, **b} and a.update(b): b wins on the keys it has
Update(a, b) ==
    [k \in (DOMAIN a) \cup (DOMAIN b) |-> IF k \in DOMAIN b THEN b[k] ELSE a[k]]

\* d[k] = v
Put(d, k, v) == [x \in (DOMAIN d) \cup {k} |-> IF x = k THEN v ELSE d[x]]

\* truth value of a dict
Truthy(d) == DOMAIN d # {}

\* str.lower() on the environment names of the model
Lower(s) ==
    CASE s = "PROD" -> "prod"
      [] s = "Prod" -> "prod"
      [] s = "Production" -> "production"
      [] OTHER -> s

(***************************************************************************)
(* data_models.py: validation and serialisation of a suggestion.           *)
(* pydantic's default (lax) mode takes an int, or a str that spells one,   *)
(* for an int field, and only a str for a str field; a missing key or a    *)
(* None fails a required field.  model_dump(by_alias=True) gives the       *)
(* coerced values under the aliases and drops unknown keys.                *)
(***************************************************************************)
IntOk(v) == v.t \in {"int", "numstr"}
StrOk(v) == v.t = "str"
AsInt(v) == I(v.v)

ResourceKeys == {"cpuLimit", "memoryLimit", "cpuRequest", "memoryRequest"}

ResourceRequirementsValid(r) ==
    /\ r.t = "dict"
    /\ \A k \in ResourceKeys : StrOk(Get(r.v, k, Missing))

ResourceRequirementsDump(r) == Dct([k \in ResourceKeys |-> r.v[k]])

\* (mutant) a validator that lets every max_replicas through
max_replicas_unchecked(mn, mx) == TRUE

\* the field_validator on max_replicas: it sees min_replicas in info.data
\* only when min_replicas itself validated

max_replicas_must_be_greater_than_min(mn, mx) ==
    ~ (IntOk(mn) /\ mx.v < mn.v)

HpaRequirementsValid(h) ==
    /\ h.t = "dict"
    /\ LET mn == Get(h.v, "minReplicas", Missing)
           mx == Get(h.v, "maxReplicas", Missing)
       IN  /\ IntOk(mn)
           /\ IntOk(mx)
           /\ max_replicas_must_be_greater_than_min(mn, mx)
    /\ IntOk(Get(h.v, "targetCPUUtilizationPercentage", Missing))
    /\ StrOk(Get(h.v, "scaleTargetRefName", Missing))
    /\ ResourceRequirementsValid(Get(h.v, "resources", Missing))

HpaRequirementsDump(h) ==
    [minReplicas |-> AsInt(h.v["minReplicas"]),
     maxReplicas |-> AsInt(h.v["maxReplicas"]),
     targetCPUUtilizationPercentage |-> AsInt(h.v["targetCPUUtilizationPercentage"]),
     scaleTargetRefName |-> h.v["scaleTargetRefName"],
     resources |-> ResourceRequirementsDump(h.v["resources"])]

ArchKey == "kubernetes.io/arch"
CapacityKey == "karpenter.sh/capacity-type"

KarpenterRequirementsValid(k) ==
    /\ k.t = "dict"
    /\ StrOk(Get(k.v, ArchKey, Missing))
    /\ StrOk(Get(k.v, CapacityKey, Missing))

KarpenterRequirementsDump(k) ==
    (ArchKey :> k.v[ArchKey]) @@ (CapacityKey :> k.v[CapacityKey])

\* ScalingSuggestion (the legacy model): hpa and karpenter
ScalingSuggestionValid(s) ==
    /\ HpaRequirementsValid(Get(s, "hpa", Missing))
    /\ KarpenterRequirementsValid(Get(s, "karpenter", Missing))

\* ScalingSuggestionContent: hpa, karpenter and an optional rationale
ScalingSuggestionContentValid(s) ==
    /\ s.t = "dict"
    /\ HpaRequirementsValid(Get(s.v, "hpa", Missing))
    /\ KarpenterRequirementsValid(Get(s.v, "karpenter", Missing))
    /\ Get(s.v, "rationale", None).t \in {"none", "str"}

ScalingSuggestionContentDump(s) ==
    [hpa |-> Dct(HpaRequirementsDump(s.v["hpa"])),
     karpenter |-> Dct(KarpenterRequirementsDump(s.v["karpenter"])),
     rationale |-> Get(s.v, "rationale", None)]

(***************************************************************************)
(* scaling_engine.py: _generate_static_suggestion.                         *)
(* config is the nested mapping of AppConfig; the legacy environments are  *)
(* kept as a sequence of <<key, cfg>> in the mapping's iteration order.    *)
(***************************************************************************)
\* (mutant) a lookup by name only, the aliases left out
LegacyMatchesByName(env_configs, env_name) ==
    {i \in DOMAIN env_configs : env_name = Lower(env_configs[i].key)}

\* lines 80-82: the name or one of the aliases, all in lower case
LegacyMatches(env_configs, env_name) ==
    {i \in 1..Len(env_configs) :
        \/ env_name = Lower(env_configs[i].key)
        \/ env_name \in {Lower(a) : a \in Get(env_configs[i].cfg, "aliases", {})}}

\* the for loop with break: the first matching entry, else {}
LegacyBaseConfig(env_configs, env_name) ==
    LET m == LegacyMatches(env_configs, env_name)
    IN  IF m = {} THEN EmptyDict
        ELSE env_configs[CHOOSE i \in m : \A j \in m : i <= j].cfg

LegacyEnvOverride(scaling_configs, repo_name, env_name) ==
    Get(Get(Get(scaling_configs, "applications", EmptyDict), repo_name, EmptyDict),
        env_name, EmptyDict)

LegacySuggestion(dc, repo_name, cfg, env_name) ==
    LET scaling_configs == Get(cfg, "scaling_suggestions", EmptyDict)
        base_config == LegacyBaseConfig(Get(scaling_configs, "environments", <<>>), env_name)
        env_override == LegacyEnvOverride(scaling_configs, repo_name, env_name)
        final_hpa == Update(Get(base_config, "hpa", EmptyDict),
                            Get(env_override, "hpa", EmptyDict))
        final_karpenter == Update(Get(base_config, "karpenter", EmptyDict),
                                  Get(env_override, "karpenter", EmptyDict))
        hpa_suggestion ==
            [minReplicas |-> Get(final_hpa, "min_replicas", None),
             maxReplicas |-> Get(final_hpa, "max_replicas", None),
             targetCPUUtilizationPercentage |-> Get(final_hpa, "cpu_utilization_target", None),
             scaleTargetRefName |-> Get(dc, "deployment_name", None)]
        karpenter_suggestion ==
            (ArchKey :> Get(dc, "architecture", None))
            @@ (CapacityKey :> Get(final_karpenter, "capacity_type", None))
    IN  [hpa |-> Dct(hpa_suggestion), karpenter |-> Dct(karpenter_suggestion)]

\* final_config.setdefault(block, {}).update(layer[block]) when block in layer
MergeBlock(final_config, layer, block) ==
    IF block \in DOMAIN layer
    THEN Put(final_config, block,
             Update(Get(final_config, block, EmptyDict), layer[block]))
    ELSE final_config

Layer1(base_fallback) ==
    IF Truthy(base_fallback)
    THEN [resource_sizing |-> Get(base_fallback, "resource_sizing", EmptyDict),
          scaling_configuration |-> Get(base_fallback, "scaling_configuration", EmptyDict),
          infrastructure |-> Get(base_fallback, "infrastructure", EmptyDict)]
    ELSE EmptyDict

Layer2(final_config, env_override) ==
    IF Truthy(env_override)
    THEN MergeBlock(MergeBlock(MergeBlock(final_config, env_override, "resource_sizing"),
                               env_override, "scaling_configuration"),
                    env_override, "infrastructure")
    ELSE final_config

Layer3(final_config, app_type_config) ==
    IF Truthy(app_type_config)
    THEN MergeBlock(MergeBlock(final_config, app_type_config, "scaling_configuration"),
                    app_type_config, "resource_sizing")
    ELSE final_config

Layer4(final_config, cost_policy) ==
    IF Truthy(cost_policy)
    THEN LET infra0 == Get(final_config, "infrastructure", EmptyDict)
             infra == IF "capacity_type" \in DOMAIN cost_policy
                      THEN Put(infra0, "capacity_type", cost_policy["capacity_type"])
                      ELSE infra0
             f1 == Put(final_config, "infrastructure", infra)
         IN  IF "target_cpu" \in DOMAIN cost_policy
             THEN Put(f1, "scaling_configuration",
                      Put(Get(f1, "scaling_configuration", EmptyDict),
                          "target_cpu", cost_policy["target_cpu"]))
             ELSE f1
    ELSE final_config

\* the try/except around ScalingSuggestion.model_validate: the dump when the
\* candidate validates, the candidate as it is when it does not
ValidatedOrRaw(suggestion_data) ==
    IF ScalingSuggestionValid(suggestion_data)
    THEN [hpa |-> Dct(HpaRequirementsDump(suggestion_data["hpa"])),
          karpenter |-> Dct(KarpenterRequirementsDump(suggestion_data["karpenter"]))]
    ELSE suggestion_data

LayeredSuggestion(dc, cfg, env_name, base_fallback) ==
    LET inferred_context == Get(dc, "inferred_context", EmptyDict)
        application_type == Get(inferred_context, "application_type", "api_service")
        cost_optimization == Get(inferred_context, "cost_optimization", "balanced")
        env_override == Get(Get(cfg, "environment_defaults", EmptyDict), env_name, EmptyDict)
        app_type_config == Get(Get(cfg, "application_type_patterns", EmptyDict),
                               application_type, EmptyDict)
        cost_policy == Get(Get(Get(cfg, "organization_policies", EmptyDict),
                               "cost_optimization", EmptyDict),
                           cost_optimization, EmptyDict)
        final_config == Layer4(Layer3(Layer2(Layer1(base_fallback), env_override),
                                      app_type_config), cost_policy)
        resource_sizing == Get(final_config, "resource_sizing", EmptyDict)
        scaling_config == Get(final_config, "scaling_configuration", EmptyDict)
        infrastructure == Get(final_config, "infrastructure", EmptyDict)
        hpa_suggestion ==
            [minReplicas |-> Get(scaling_config, "min_replicas", I(2)),
             maxReplicas |-> Get(scaling_config, "max_replicas", I(6)),
             targetCPUUtilizationPercentage |-> Get(scaling_config, "target_cpu", I(70)),
             scaleTargetRefName |-> Get(dc, "deployment_name", None),
             resources |-> Dct([cpuLimit |-> Get(resource_sizing, "cpu_limit", S("500m")),
                                memoryLimit |-> Get(resource_sizing, "memory_limit", S("512Mi")),
                                cpuRequest |-> Get(resource_sizing, "cpu_request", S("250m")),
                                memoryRequest |-> Get(resource_sizing, "memory_request", S("256Mi"))])]
        karpenter_suggestion ==
            (ArchKey :> Get(infrastructure, "arch", Get(dc, "architecture", S("amd64"))))
            @@ (CapacityKey :> Get(infrastructure, "capacity_type", S("spot")))
    IN  ValidatedOrRaw([hpa |-> Dct(hpa_suggestion), karpenter |-> Dct(karpenter_suggestion)])

\* (mutant) a generator that cascades the layers whatever the availability
AlwaysLayered(dc, repo_name, cfg) ==
    LayeredSuggestion(dc, cfg, Lower(Get(dc, "environment", "")),
                      Get(Get(cfg, "fallback_strategies", EmptyDict), "new_deployment", EmptyDict))

_generate_static_suggestion(dc, repo_name, cfg) ==
    LET env_name == Lower(Get(dc, "environment", ""))
        data_availability == Get(dc, "data_availability", "full_historical_data")
        fallback_config == Get(cfg, "fallback_strategies", EmptyDict)
    IN  IF data_availability = "no_historical_data"
        THEN LayeredSuggestion(dc, cfg, env_name, Get(fallback_config, "new_deployment", EmptyDict))
        ELSE IF data_availability = "partial_data"
        THEN LayeredSuggestion(dc, cfg, env_name, Get(fallback_config, "partial_data", EmptyDict))
        ELSE LegacySuggestion(dc, repo_name, cfg, env_name)

(***************************************************************************)
(* scaling_engine.py: get_suggestion.                                      *)
(*                                                                         *)
(* One call is followed from its entry to its return.  The steps are cut   *)
(* where the code calls out: the client factories, llm_client.call, and    *)
(* the reading of one tool call of the response (json.loads, validation    *)
(* or dispatch to the mcp client).  A response fixes how many tool calls   *)
(* it carries; the name and arguments of each are resolved when the loop   *)
(* reads it, since the code looks at no call before its turn.              *)
(***************************************************************************)
MaxRounds == 5

SubmitTool == "submit_scaling_suggestion"

\* the seven tools of the catalog offered to the reasoning backend
CatalogTools ==
    {"get_performance_metrics", "get_health_events", "get_service_level_objectives",
     "check_data_availability", "discover_entity", "get_historical_metrics",
     "get_trend_analysis"}

\* hasattr(mcp_client, name): the attributes of DynatraceMCPClient
GatewayAttrs ==
    CatalogTools \cup
    {"get_scaling_context", "_json_rpc_request", "_query_entities",
     "_query_historical_metrics", "_query_metrics_batch", "_query_problems",
     "_query_oom_kills", "_query_slos", "api_url", "api_token", "headers"}

\* the keyword parameters of the gateway methods: <<required, optional>>
Signature(name) ==
    CASE name \in {"get_performance_metrics", "get_health_events",
                   "get_service_level_objectives", "get_scaling_context"}
            -> <<{"entity_id"}, {}>>
      [] name \in {"check_data_availability", "discover_entity"}
            -> <<{"app_name", "namespace"}, {}>>
      [] name \in {"get_historical_metrics", "get_trend_analysis"}
            -> <<{"entity_id"}, {"days"}>>
      [] OTHER -> <<{"method", "params"}, {}>>

\* function_to_call(**function_args) binds: the arguments are a mapping whose
\* keys are the required parameters and, possibly, optional ones
Binds(name, args) ==
    /\ args.t = "dict"
    /\ Signature(name)[1] \subseteq DOMAIN args.v
    /\ DOMAIN args.v \subseteq Signature(name)[1] \cup Signature(name)[2]

BadJson == [t |-> "badjson"]
NoCall == [id |-> <<0, 0>>, name |-> "", args |-> None]
NoResult == [suggestion |-> EmptyDict, suggestion_source |-> "none"]
NoStatic == [computed |-> FALSE]

ToolNotFound == "Error: Tool not found."

\* (mutant) an engine that takes the AI path whatever the flag says
EnableAlways(cfg) == TRUE

\* line 196: config.get('features', {}).get('enable_ai_shadow_analyst', False)
EnableAI(cfg) ==
    Get(Get(cfg, "features", EmptyDict), "enable_ai_shadow_analyst", FALSE)

StaticEnvelope(s) == [suggestion |-> s, suggestion_source |-> "static"]

LlmEnvelope(args) ==
    [suggestion |-> ScalingSuggestionContentDump(args),
     suggestion_source |-> "llm_validated"]

UserMessage == [role |-> "user"]
AssistantMessage(round, n) ==
    [role |-> "assistant", tool_call_ids |-> [i \in 1..n |-> <<round, i>>]]
\* (mutant) a tool result that carries no call's id
ToolMessageUnkeyed(call, content) ==
    [role |-> "tool", tool_call_id |-> <<0, 0>>, name |-> call.name, content |-> content]

\* lines 344-356: the tool message of a call
ToolMessage(call, content) ==
    [role |-> "tool", tool_call_id |-> call.id, name |-> call.name, content |-> content]

\* the call ends with the conversation as conv; nothing changes afterwards
Leave(r, how, why, conv) ==
    /\ pc' = "done"
    /\ result' = r
    /\ outcome' = [state |-> how, cause |-> why]
    /\ messages' = conv
    /\ pending' = 0

\* return {...}: the conversation stays as the last append left it
Return(r, how, why) == Leave(r, how, why, messages)

\* (mutant) an exception of the AI path that reaches the caller
AbortPropagates(why) ==
    Return([raised |-> why], "Aborted", why)

\* (mutant) a loop that asks the reasoning backend again after a failed call
AbortRetries(why) ==
    IF why \in {"llm_error", "tool_error"} /\ llm_calls < MaxRounds - 1
    THEN /\ pc' = "await"
         /\ outcome' = [state |-> "Running", cause |-> why]
         /\ messages' = <<UserMessage>>
         /\ pending' = 0
         /\ UNCHANGED result
    ELSE Return(StaticEnvelope(static_suggestion), "Aborted", why)

\* except Exception: the print, then the static return after the try block
Abort(why) ==
    Return(StaticEnvelope(static_suggestion), "Aborted", why)

\* (mutant) a loop that answers with an empty suggestion when it runs dry
ExhaustEmpty(why) ==
    Return(StaticEnvelope(EmptyDict), "Exhausted", why)

\* (mutant) a loop that files the response before it looks for tool calls
ExhaustAppends(why) ==
    Leave(StaticEnvelope(static_suggestion), "Exhausted", why,
          Append(messages, [role |-> "assistant", tool_call_ids |-> <<>>]))

\* the break of lines 357-359, then the static return after the try block
Exhaust(why) ==
    Return(StaticEnvelope(static_suggestion), "Exhausted", why)

\* lines 192-197: the static suggestion, then the feature flag
GetSuggestion ==
    /\ pc = "start"
    /\ static_suggestion' =
           _generate_static_suggestion(deployment_context, Get(app_context, "name", None), config)
    /\ IF EnableAI(config)
       THEN /\ pc' = "clients"
            /\ UNCHANGED <<result, outcome, messages, pending>>
       ELSE /\ pc' = "done"
            /\ result' = StaticEnvelope(static_suggestion')
            /\ outcome' = [state |-> "Disabled", cause |-> "flag_off"]
            /\ UNCHANGED <<messages, pending>>
    /\ UNCHANGED <<other_vars, config, app_context, deployment_context, llm_client, mcp_client,
                   llm_calls, mcp_calls, last_call, registry, exec_result>>

\* lines 199-319: the two factories (either may raise), then the first message
BuildClients ==
    /\ pc = "clients"
    /\ \E llm_ok \in BOOLEAN, mcp_ok \in BOOLEAN :
          /\ llm_client' = IF llm_ok THEN "built" ELSE "none"
          /\ mcp_client' = IF llm_ok /\ mcp_ok THEN "built" ELSE "none"
          /\ IF llm_ok /\ mcp_ok
             THEN /\ pc' = "await"
                  /\ messages' = <<UserMessage>>
                  /\ UNCHANGED <<result, outcome, pending>>
             ELSE Abort("client_error")
    /\ UNCHANGED <<other_vars, config, app_context, deployment_context, static_suggestion,
                   llm_calls, mcp_calls, last_call, registry, exec_result>>

\* the tool calls the responses so far have carried
CallsRequested ==
    Len(SelectSeq(messages, LAMBDA m : m.role = "tool")) + pending

\* lines 322-327 and 357-359: one llm_client.call and the look at tool_calls
CallLLM ==
    /\ pc = "await"
    /\ llm_calls' = llm_calls + 1
    /\ \/ Abort("llm_error")
       \/ Exhaust("no_tool_calls")
       \/ \E n \in 1..MaxCalls :
             /\ CallsRequested + n <= MaxToolCalls
             /\ messages' = Append(messages, AssistantMessage(llm_calls', n))
             /\ pending' = n
             /\ pc' = "tools"
             /\ UNCHANGED <<result, outcome>>
    /\ UNCHANGED <<other_vars, config, app_context, deployment_context, static_suggestion,
                   llm_client, mcp_client, mcp_calls, last_call, registry, exec_result>>

\* the tool names and argument payloads the reasoning backend sends in the model
StubToolNames ==
    {"get_performance_metrics", "get_scaling_context", "api_url", "unknown_tool", SubmitTool}

FullResources ==
    Dct([cpuLimit |-> S("1"), memoryLimit |-> S("1Gi"),
         cpuRequest |-> S("500m"), memoryRequest |-> S("512Mi")])

GoodKarpenter == Dct((ArchKey :> S("amd64")) @@ (CapacityKey :> S("spot")))

HpaArgs(mn, mx) ==
    Dct([minReplicas |-> mn, maxReplicas |-> mx,
         targetCPUUtilizationPercentage |-> I(80),
         scaleTargetRefName |-> S("test-deploy"), resources |-> FullResources])

ReplicaPairs ==
    {<<I(mn), I(mx)>> : mn, mx \in 1..MaxReplica}
    \cup {<<NumStr(1), I(MaxReplica)>>, <<I(0), I(1)>>, <<None, I(1)>>, <<I(1), None>>}

\* submissions whose CPU target is no percentage
OddCpuArgs ==
    {Dct([hpa |-> Dct([HpaArgs(I(1), I(1)).v EXCEPT
                          !.targetCPUUtilizationPercentage = I(c)]),
          karpenter |-> GoodKarpenter]) : c \in {0 - 5, 0, 101}}

SubmissionArgs ==
    {Dct([hpa |-> HpaArgs(p[1], p[2]), karpenter |-> GoodKarpenter]) : p \in ReplicaPairs}
    \cup OddCpuArgs
    \cup {Dct([hpa |-> HpaArgs(I(1), I(1))]),
          Dct([hpa |-> Dct([minReplicas |-> I(1), maxReplicas |-> I(1)]),
               karpenter |-> GoodKarpenter]),
          Dct([hpa |-> HpaArgs(I(1), I(1)), karpenter |-> GoodKarpenter,
               rationale |-> S("steady traffic")]),
          I(1), BadJson}

QueryArgs == {BadJson, Dct([entity_id |-> S("svc")]), Dct([service |-> S("svc")])}

OtherArgs == {BadJson, Dct([entity_id |-> S("svc")])}

ArgsFor(name) ==
    CASE name = SubmitTool -> SubmissionArgs
      [] name \in GatewayAttrs -> QueryArgs
      [] OTHER -> OtherArgs

Callable(name) == name \notin {"api_url", "api_token", "headers"}

\* (mutant) a loop that reads the calls of a response from the last to the first
CallIndexBackwards == pending

\* the position in the response of the call read next: the first, or the
\* one after the call whose tool message was appended last
CallIndex ==
    LET last == messages[Len(messages)]
    IN  IF last.role = "assistant" THEN 1 ELSE last.tool_call_id[2] + 1

\* (mutant) a loop that goes on asking for as long as tools are requested
ContinueUnbounded(msg) ==
    /\ messages' = Append(messages, msg)
    /\ pending' = pending - 1
    /\ pc' = IF pending > 1 THEN "tools" ELSE "await"
    /\ UNCHANGED <<result, outcome>>

\* messages.append(tool result), then the next call of the round, the next
\* round, or the end of range(5)
Continue(msg) ==
    IF pending > 1 \/ llm_calls < MaxRounds
    THEN /\ messages' = Append(messages, msg)
         /\ pending' = pending - 1
         /\ pc' = IF pending > 1 THEN "tools" ELSE "await"
         /\ UNCHANGED <<result, outcome>>
    ELSE Leave(StaticEnvelope(static_suggestion), "Exhausted", "budget",
               Append(messages, msg))

\* (mutant) a submission answered like any other tool call
SubmitContinues(args) ==
    Continue([role |-> "tool", tool_call_id |-> <<llm_calls, CallIndex>>,
              name |-> SubmitTool, content |-> "accepted"])

\* lines 333-338: model_validate raises, or the dump is returned
Submit(args) ==
    IF ScalingSuggestionContentValid(args)
    THEN Return(LlmEnvelope(args), "Submitted", "submitted")
    ELSE Abort("validation_error")

\* lines 350-356: the name is no attribute of the mcp client
NotFound(call) == Continue(ToolMessage(call, ToolNotFound))

\* lines 341-349: getattr, the call with the arguments as keywords, json.dumps
Dispatch(call) ==
    IF Callable(call.name) /\ Binds(call.name, call.args)
    THEN /\ mcp_calls' = mcp_calls + 1
         /\ \/ Continue(ToolMessage(call, "result"))
            \/ Abort("tool_error")
    ELSE /\ Abort("dispatch_error")
         /\ UNCHANGED mcp_calls

\* (mutant) a loop that looks the name up before it parses the arguments
ReadToolCallNameFirst ==
    /\ pc = "tools"
    /\ \E name \in StubToolNames :
       \E args \in ArgsFor(name) :
          LET call == [id |-> <<llm_calls, CallIndex>>, name |-> name, args |-> args]
          IN  /\ last_call' = call
              /\ IF name \notin GatewayAttrs \cup {SubmitTool}
                 THEN NotFound(call) /\ UNCHANGED mcp_calls
                 ELSE IF args = BadJson
                 THEN Abort("bad_arguments") /\ UNCHANGED mcp_calls
                 ELSE IF name = SubmitTool
                 THEN Submit(args) /\ UNCHANGED mcp_calls
                 ELSE Dispatch(call)
    /\ UNCHANGED <<other_vars, config, app_context, deployment_context, static_suggestion,
                   llm_client, mcp_client, llm_calls, registry, exec_result>>

\* lines 329-356: one turn of the for loop over tool_calls
ReadToolCall ==
    /\ pc = "tools"
    /\ \E name \in StubToolNames :
       \E args \in ArgsFor(name) :
          LET call == [id |-> <<llm_calls, CallIndex>>, name |-> name, args |-> args]
          IN  /\ last_call' = call
              /\ IF args = BadJson
                 THEN Abort("bad_arguments") /\ UNCHANGED mcp_calls
                 ELSE IF name = SubmitTool
                 THEN Submit(args) /\ UNCHANGED mcp_calls
                 ELSE IF name \in GatewayAttrs
                 THEN Dispatch(call)
                 ELSE NotFound(call) /\ UNCHANGED mcp_calls
    /\ UNCHANGED <<other_vars, config, app_context, deployment_context, static_suggestion,
                   llm_client, mcp_client, llm_calls, registry, exec_result>>

(***************************************************************************)
(* llm_tools.py: ToolRegistry and the handlers of ScalingToolsManager.     *)
(* registry.tools is the key set of _tools; registry.handlers maps the     *)
(* keys of _handlers to the kind of handler bound to them.                 *)
(***************************************************************************)
NoExec == [kind |-> "none"]

\* ScalingToolsManager._register_default_tools: the seven tools and the
\* submission tool, each with its handler
DefaultRegistry ==
    [tools |-> CatalogTools \cup {SubmitTool},
     handlers |-> [n \in CatalogTools \cup {SubmitTool} |->
                      IF n = SubmitTool THEN "submission" ELSE "gateway"]]

RegistryNames == {"get_performance_metrics", SubmitTool, "unknown_tool"}

\* ToolRegistry.register_tool: the handler is recorded only when the tool has one
register_tool(name, handler) ==
    registry' = [tools |-> registry.tools \cup {name},
                 handlers |-> IF handler = "none" THEN registry.handlers
                              ELSE Put(registry.handlers, name, handler)]

\* ToolRegistry.register_handler: ignored for a name that is no tool
register_handler(name, handler) ==
    registry' = IF name \in registry.tools
                THEN [registry EXCEPT !.handlers = Put(registry.handlers, name, handler)]
                ELSE registry

Float08 == [t |-> "float", v |-> "0.8"]

\* ScalingToolsManager._handle_scaling_submission
_handle_scaling_submission(kwargs) ==
    [kind |-> "return",
     value |-> [suggestion |->
                    [hpa |-> Get(kwargs, "hpa", Dct(EmptyDict)),
                     resources |-> Get(kwargs, "resources", Dct(EmptyDict)),
                     ai_rationale |-> Get(kwargs, "ai_rationale", S("")),
                     confidence_score |-> Get(kwargs, "confidence_score", Float08)],
                suggestion_source |-> "llm_validated"]]

\* (mutant) a registry that answers a missing handler with an error value
NoHandlerReturnsError(tool_name) ==
    [kind |-> "return", value |-> [error |-> "ToolError"]]

\* ToolRegistry.execute_tool, the handler missing
NoHandler(tool_name) == [kind |-> "raise", exc |-> "ValueError"]

\* what handler(**kwargs) may do, by the kind of handler
HandlerOutcomes(tool_name, kwargs) ==
    CASE registry.handlers[tool_name] = "submission" -> {_handle_scaling_submission(kwargs)}
      [] registry.handlers[tool_name] = "gateway" ->
            IF Binds(tool_name, Dct(kwargs))
            THEN {[kind |-> "return", value |-> [payload |-> "result"]],
                  [kind |-> "raise", exc |-> "BackendError"]}
            ELSE {[kind |-> "raise", exc |-> "TypeError"]}
      [] OTHER -> {[kind |-> "return", value |-> [payload |-> "result"]],
                   [kind |-> "raise", exc |-> "HandlerError"]}

ExecKwargs ==
    {[hpa |-> HpaArgs(I(1), I(MaxReplica)), resources |-> FullResources,
      ai_rationale |-> S("steady traffic")],
     [hpa |-> HpaArgs(I(MaxReplica), I(1)), resources |-> FullResources,
      ai_rationale |-> S("steady traffic")],
     [ai_rationale |-> S("no data")],
     [entity_id |-> S("svc")]}

RegistryFrame ==
    /\ pc \in {"start", "registry"}
    /\ pc' = "registry"
    /\ UNCHANGED <<other_vars, config, app_context, deployment_context, static_suggestion,
                   llm_client, mcp_client, llm_calls, mcp_calls, messages, pending,
                   last_call, result, outcome>>

RegisterTool ==
    /\ RegistryFrame
    /\ \E name \in RegistryNames, handler \in {"none", "custom"} :
          register_tool(name, handler)
    /\ UNCHANGED exec_result

RegisterHandler ==
    /\ RegistryFrame
    /\ \E name \in RegistryNames : register_handler(name, "custom")
    /\ UNCHANGED exec_result

\* ToolRegistry.execute_tool
ExecuteTool ==
    /\ RegistryFrame
    /\ \E tool_name \in RegistryNames, kwargs \in ExecKwargs :
          \E r \in (IF tool_name \in DOMAIN registry.handlers
                    THEN HandlerOutcomes(tool_name, kwargs)
                    ELSE {NoHandler(tool_name)}) :
             exec_result' = [tool |-> tool_name, kwargs |-> kwargs,
                             handler |-> Get(registry.handlers, tool_name, "none"),
                             did |-> r, kind |-> r.kind]
    /\ UNCHANGED registry

(***************************************************************************)
(* main.py: _check_data_availability, and                                  *)
(* dynatrace_mcp_client.py: DynatraceMCPClient.check_data_availability.    *)
(* historical_data maps each metric of the results to its data_points. The *)
(* floats are kept as integers: days_available in hundredths of a day,     *)
(* completeness in tenths of a percent, both rounded down, which leaves    *)
(* every comparison with the whole-number thresholds as it is.             *)
(***************************************************************************)
FullDays == 5
FullCompleteness == 80
PartialDays == 1
PartialCompleteness == 30
MostDays == 7
LeastDays == 1
HoursPerDay == 24

Min(a, b) == IF a <= b THEN a ELSE b
Max(a, b) == IF a >= b THEN a ELSE b

NotChecked == <<"not_checked", None>>
NoHistoricalData == <<"no_historical_data", None>>

\* (mutant) thresholds that leave the boundary values out
ClassificationStrict(days, percent) ==
    IF days > FullDays * 100 /\ percent > FullCompleteness * 10
    THEN "full_historical_data"
    ELSE IF days > PartialDays * 100 /\ percent > PartialCompleteness * 10
    THEN "partial_data"
    ELSE "no_historical_data"

\* lines 217-229: the if / elif / else over days_available and completeness
Classification(days, percent) ==
    IF days >= FullDays * 100 /\ percent >= FullCompleteness * 10
    THEN "full_historical_data"
    ELSE IF days >= PartialDays * 100 /\ percent >= PartialCompleteness * 10
    THEN "partial_data"
    ELSE "no_historical_data"

\* lines 204-211: the metrics whose entry is truthy and has data_points > 0
AvailableMetrics(hd) ==
    {m \in DOMAIN hd : hd[m] # None /\ hd[m].v > 0}

MinDataPoints(hd) ==
    LET a == AvailableMetrics(hd)
    IN  hd[CHOOSE m \in a : \A n \in a : hd[m].v <= hd[n].v].v

\* line 214: (available_metrics / total_metrics) * 100, in tenths
Completeness(hd) ==
    (Cardinality(AvailableMetrics(hd)) * 1000) \div Cardinality(DOMAIN hd)

\* line 215: min(7, max(1, min_data_points / 24)), in hundredths
DaysAvailable(hd) ==
    Min(MostDays * 100, Max(LeastDays * 100, (MinDataPoints(hd) * 100) \div HoursPerDay))

\* a return of check_data_availability or of the except in main.py
AvailabilityReturns(r) ==
    /\ availability' = r
    /\ av_pc' = "done"

\* an exception reaches an except clause, which prints it
Caught(why) == av_error' = [t |-> "exception", why |-> why]

\* (mutant) a classifier that lets the backend's failure through
FailurePropagates(why) ==
    /\ Caught(why)
    /\ AvailabilityReturns(<<"raised", why>>)

\* except Exception: return 'no_historical_data', None (lines 231-233, 145-147)
Degrade(why) ==
    /\ Caught(why)
    /\ AvailabilityReturns(NoHistoricalData)

\* main.py 136-143: the gateway is built, or its constructor raises
CheckDataAvailability ==
    /\ av_pc = "start"
    /\ \/ av_pc' = "discover" /\ UNCHANGED <<availability, av_error>>
       \/ Degrade("gateway_error")
    /\ UNCHANGED <<entity_id, historical_data, days_available, completeness>>
    /\ UNCHANGED selector_log
    /\ UNCHANGED <<engine_vars, secrets_vars, inference_vars>>

\* lines 242-247: the four selector patterns, in the order of the list
Selectors ==
    <<"entityName", "tag_app", "namespace_entityName_contains", "tag_deployment">>

\* what one entities request may answer: the entities found, in order
EntityAnswers == {<<>>, <<"SERVICE-1">>, <<"SERVICE-2", "SERVICE-1">>}

\* (mutant) a discovery that gives up after the first selector
FirstSelectorOnly(tried) == TRUE

\* lines 249-255: after an empty answer the loop goes on to the next selector
LastSelector(tried) == Len(tried) = Len(Selectors)

\* discover_entity returned None: line 186-187
NoEntity ==
    /\ AvailabilityReturns(NoHistoricalData)
    /\ UNCHANGED entity_id

\* lines 185-188 and 235-258: one turn of the loop over the selectors.  The
\* request answers entities, or fails in requests (which _query_entities
\* turns into []), or fails otherwise (which discover_entity catches)
DiscoverEntity ==
    /\ av_pc = "discover"
    /\ LET selector == Selectors[Len(selector_log) + 1]
       IN  \/ \E entities \in EntityAnswers \ {<<>>} :
                /\ selector_log' = Append(selector_log, [selector |-> selector, did |-> "match",
                                                        found |-> entities])
                /\ entity_id' = S(entities[1])
                /\ av_pc' = "query"
                /\ UNCHANGED <<availability, av_error>>
           \/ \E did \in {"no_match", "network_error"} :
                /\ selector_log' = Append(selector_log, [selector |-> selector, did |-> did,
                                                        found |-> <<>>])
                /\ UNCHANGED av_error
                /\ IF LastSelector(selector_log') THEN NoEntity
                   ELSE UNCHANGED <<av_pc, entity_id, availability>>
           \/ /\ selector_log' = Append(selector_log, [selector |-> selector, did |-> "error",
                                                       found |-> <<>>])
              /\ Caught("discovery_error")
              /\ NoEntity
    /\ UNCHANGED <<historical_data, days_available, completeness>>
    /\ UNCHANGED <<engine_vars, secrets_vars, inference_vars>>

Metrics == {"cpu.time", "memory.usage", "requestCount.rate", "response.time"}

\* the non-null values one metric of the answer carries (0: none, or the
\* metric is not in the answer)
PointCounts == {0, 23, 24, 119, 120, 200}

\* what the metrics query may answer for the four metrics requested
MetricAnswers == [Metrics -> PointCounts]

\* lines 71-87: results holds the metrics that have values, with their count
_query_historical_metrics(data) ==
    [m \in {n \in DOMAIN data : data[n] > 0} |-> I(data[m])]

\* lines 190-198 and 49-90: the request fails in requests (and answers {}),
\* fails otherwise (and raises), or answers the metrics that have values
QueryHistoricalMetrics ==
    /\ av_pc = "query"
    /\ \/ Degrade("query_error") /\ UNCHANGED historical_data
       \/ \E data \in MetricAnswers \cup {EmptyDict} :
             /\ historical_data' = _query_historical_metrics(data)
             /\ UNCHANGED av_error
             /\ IF historical_data' = EmptyDict
                THEN AvailabilityReturns(NoHistoricalData)
                ELSE av_pc' = "analyse" /\ UNCHANGED availability
    /\ UNCHANGED <<entity_id, days_available, completeness>>
    /\ UNCHANGED selector_log
    /\ UNCHANGED <<engine_vars, secrets_vars, inference_vars>>

\* lines 200-215: the loop over the metrics, completeness and days_available
AnalyseCompleteness ==
    /\ av_pc = "analyse"
    /\ IF \E m \in DOMAIN historical_data : historical_data[m].t = "str"
       THEN Degrade("analysis_error") /\ UNCHANGED <<days_available, completeness>>
       ELSE IF AvailableMetrics(historical_data) = {}
       THEN AvailabilityReturns(NoHistoricalData)
            /\ UNCHANGED <<days_available, completeness, av_error>>
       ELSE /\ completeness' = Completeness(historical_data)
            /\ days_available' = DaysAvailable(historical_data)
            /\ av_pc' = "classify"
            /\ UNCHANGED <<availability, av_error>>
    /\ UNCHANGED <<entity_id, historical_data>>
    /\ UNCHANGED selector_log
    /\ UNCHANGED <<engine_vars, secrets_vars, inference_vars>>

\* lines 217-229: the status, with the details when there are data
Classify ==
    /\ av_pc = "classify"
    /\ LET status == Classification(days_available, completeness)
       IN  AvailabilityReturns(
               IF status = "no_historical_data" THEN NoHistoricalData
               ELSE <<status, [days_available |-> days_available \div 100,
                               completeness |-> completeness,
                               entity_id |-> entity_id]>>)
    /\ UNCHANGED <<entity_id, historical_data, days_available, completeness, av_error>>
    /\ UNCHANGED selector_log
    /\ UNCHANGED <<engine_vars, secrets_vars, inference_vars>>

AvailabilityIdle ==
    /\ av_pc = "idle"
    /\ entity_id = None
    /\ historical_data = EmptyDict
    /\ days_available = 0
    /\ completeness = 0
    /\ availability = NotChecked
    /\ av_error = None
    /\ selector_log = <<>>

(***************************************************************************)
(* secrets_manager.py: get_secret and the module global CACHED_SECRETS.    *)
(* Callers are threads of one process; a step is one access to the global  *)
(* or one call out (the backend request with the parse of its answer).     *)
(* The secret the backend holds does not change.                           *)
(***************************************************************************)
MaxCallers == 2        \* threads that call get_secret
MaxSecretCalls == 2    \* get_secret calls one thread makes

Callers == 1..MaxCallers

NoFetch == [ok |-> FALSE, value |-> None]
NotReturned == [t |-> "nothing"]

\* the SecretString values of the model: JSON objects, and text that is no JSON
SecretStrings ==
    {[json |-> TRUE, object |-> EmptyDict],
     [json |-> TRUE, object |-> [API_TOKEN |-> "t0k3n"]],
     [json |-> TRUE, object |-> [API_TOKEN |-> "t0k3n", API_URL |-> "https://dt"]],
     [json |-> FALSE, object |-> EmptyDict]}

\* (mutant) a cache test that takes an empty mapping for a cached value
CacheSet(cache) == cache # None

\* line 17: if CACHED_SECRETS (None and {} are falsy)
CacheTruthy(cache) == cache # None /\ cache.v # EmptyDict

\* line 38: CACHED_SECRETS = {}
FailureCache(cache) == Dct(EmptyDict)

\* lines 17 and 20: the test of the cache at the entry of get_secret
GetSecret(c) ==
    /\ sm_pc[c] = "idle"
    /\ sm_calls[c] < MaxSecretCalls
    /\ sm_calls' = [sm_calls EXCEPT ![c] = @ + 1]
    /\ sm_pc' = [sm_pc EXCEPT ![c] = IF CacheTruthy(CACHED_SECRETS) THEN "return" ELSE "client"]
    /\ sm_returned' = [sm_returned EXCEPT ![c] = NotReturned]
    /\ UNCHANGED <<CACHED_SECRETS, secret_string, sm_fetched, backend_log>>
    /\ UNCHANGED <<engine_vars, availability_vars, inference_vars>>

\* line 21: boto3.client('secretsmanager'), outside the try block
MakeClient(c) ==
    /\ sm_pc[c] = "client"
    /\ \/ /\ sm_pc' = [sm_pc EXCEPT ![c] = "fetch"]
          /\ UNCHANGED sm_returned
       \/ /\ sm_pc' = [sm_pc EXCEPT ![c] = "idle"]
          /\ sm_returned' = [sm_returned EXCEPT ![c] = [t |-> "raised"]]
    /\ UNCHANGED <<CACHED_SECRETS, secret_string, sm_fetched, sm_calls, backend_log>>
    /\ UNCHANGED <<engine_vars, availability_vars, inference_vars>>

\* lines 24-26 before the assignment: get_secret_value answers or raises,
\* json.loads parses the answer or raises
FetchSecret(c) ==
    /\ sm_pc[c] = "fetch"
    /\ \E answered \in BOOLEAN :
          LET ok == answered /\ secret_string.json
          IN  /\ backend_log' = Append(backend_log, [caller |-> c, answered |-> answered, ok |-> ok])
              /\ sm_fetched' = [sm_fetched EXCEPT ![c] =
                                   IF ok THEN [ok |-> TRUE, value |-> Dct(secret_string.object)]
                                   ELSE NoFetch]
    /\ sm_pc' = [sm_pc EXCEPT ![c] = "store"]
    /\ UNCHANGED <<CACHED_SECRETS, secret_string, sm_returned, sm_calls>>
    /\ UNCHANGED <<engine_vars, availability_vars, inference_vars>>

\* line 26 or line 38: the assignment to the global
StoreSecret(c) ==
    /\ sm_pc[c] = "store"
    /\ CACHED_SECRETS' = IF sm_fetched[c].ok THEN sm_fetched[c].value
                         ELSE FailureCache(CACHED_SECRETS)
    /\ sm_pc' = [sm_pc EXCEPT ![c] = "return"]
    /\ UNCHANGED <<secret_string, sm_fetched, sm_returned, sm_calls, backend_log>>
    /\ UNCHANGED <<engine_vars, availability_vars, inference_vars>>

\* lines 18, 28 and 39: return CACHED_SECRETS, the global as it is now
ReturnSecret(c) ==
    /\ sm_pc[c] = "return"
    /\ sm_returned' = [sm_returned EXCEPT ![c] = CACHED_SECRETS]
    /\ sm_pc' = [sm_pc EXCEPT ![c] = "idle"]
    /\ UNCHANGED <<CACHED_SECRETS, secret_string, sm_fetched, sm_calls, backend_log>>
    /\ UNCHANGED <<engine_vars, availability_vars, inference_vars>>

\* lines 51-52: secrets.get(key, default) on what get_secret returned
get_secret_value(secrets, key, default) == Get(secrets.v, key, default)

SecretsIdle ==
    /\ CACHED_SECRETS = None
    /\ secret_string = [json |-> FALSE, object |-> EmptyDict]
    /\ sm_pc = [c \in Callers |-> "off"]
    /\ sm_fetched = [c \in Callers |-> NoFetch]
    /\ sm_returned = [c \in Callers |-> NotReturned]
    /\ sm_calls = [c \in Callers |-> 0]
    /\ backend_log = <<>>

(***************************************************************************)
(* main.py: _infer_application_type.  A name is the sequence of its        *)
(* characters, so that `pattern in app_name_lower` is a search for a       *)
(* contiguous run of characters.                                           *)
(***************************************************************************)
\* str.lower() of one character, over the capitals the names of the model use
LowerChar(ch) ==
    CASE ch = "A" -> "a"
      [] ch = "I" -> "i"
      [] ch = "J" -> "j"
      [] ch = "U" -> "u"
      [] ch = "W" -> "w"
      [] OTHER -> ch

LowerName(name) == [i \in DOMAIN name |-> LowerChar(name[i])]

\* pattern in text
Contains(text, pattern) ==
    \E i \in 1..(Len(text) - Len(pattern) + 1) :
        SubSeq(text, i, i + Len(pattern) - 1) = pattern

ApiPatterns ==
    {<<"a","p","i">>, <<"s","e","r","v","i","c","e">>, <<"r","e","s","t">>,
     <<"g","r","a","p","h","q","l">>}

WorkerPatterns ==
    {<<"w","o","r","k","e","r">>, <<"j","o","b">>, <<"q","u","e","u","e">>,
     <<"p","r","o","c","e","s","s","o","r">>}

FrontendPatterns ==
    {<<"f","r","o","n","t","e","n","d">>, <<"u","i">>, <<"w","e","b">>,
     <<"r","e","a","c","t">>, <<"v","u","e">>, <<"a","n","g","u","l","a","r">>}

\* any(pattern in app_name_lower for pattern in [...])
AnyIn(patterns, text) == \E pt \in patterns : Contains(text, pt)

\* (mutant) the worker patterns tested before the API patterns
WorkerPatternsFirst(name) ==
    LET app_name_lower == LowerName(name)
    IN  IF AnyIn(WorkerPatterns, app_name_lower) THEN "worker_service"
        ELSE IF AnyIn(ApiPatterns, app_name_lower) THEN "api_service"
        ELSE IF AnyIn(FrontendPatterns, app_name_lower) THEN "frontend_service"
        ELSE "api_service"

\* lines 117-134: the three tests in their order, then the default
_infer_application_type(name) ==
    LET app_name_lower == LowerName(name)
    IN  IF AnyIn(ApiPatterns, app_name_lower) THEN "api_service"
        ELSE IF AnyIn(WorkerPatterns, app_name_lower) THEN "worker_service"
        ELSE IF AnyIn(FrontendPatterns, app_name_lower) THEN "frontend_service"
        ELSE "api_service"

\* line 268: application_type = _infer_application_type(app_name)
InferApplicationType ==
    /\ inf_pc = "start"
    /\ inf_pc' = "done"
    /\ app_type' = _infer_application_type(app_name)
    /\ UNCHANGED app_name
    /\ UNCHANGED <<engine_vars, availability_vars, secrets_vars>>

InferenceIdle ==
    /\ inf_pc = "idle"
    /\ app_name = <<>>
    /\ app_type = "none"

(***************************************************************************)
(* The inputs of the model.                                                *)
(***************************************************************************)
ScalingKeys == {"min_replicas", "max_replicas"}

\* the scaling blocks a layer may carry: any subset of the replica keys
ScalingBlocks ==
    UNION {[ks -> {I(n) : n \in 1..MaxReplica}] : ks \in SUBSET ScalingKeys}

\* a configuration layer: nothing, a scaling block, or all three blocks
Layers ==
    {EmptyDict}
    \cup {[scaling_configuration |-> b] : b \in ScalingBlocks}
    \cup {[scaling_configuration |-> b,
           resource_sizing |-> [cpu_limit |-> S("2")],
           infrastructure |-> [capacity_type |-> S("on-demand")]] :
            b \in {EmptyDict, [min_replicas |-> I(1)]}}

CostPolicies ==
    {EmptyDict, [capacity_type |-> S("spot")], [target_cpu |-> I(60)],
     [capacity_type |-> S("on-demand"), target_cpu |-> I(60)]}

LayeredConfig(ai, base, env, app, cost) ==
    [features |-> [enable_ai_shadow_analyst |-> ai],
     fallback_strategies |-> [new_deployment |-> base, partial_data |-> base],
     environment_defaults |-> [prod |-> env],
     application_type_patterns |-> [worker_service |-> app],
     organization_policies |-> [cost_optimization |-> [balanced |-> cost]]]

LegacyHpaBlocks ==
    UNION {[ks -> {I(n) : n \in 1..MaxReplica}] : ks \in SUBSET ScalingKeys}

LegacyConfig(ai, hpa, override) ==
    [features |-> [enable_ai_shadow_analyst |-> ai],
     scaling_suggestions |->
        [environments |->
            <<[key |-> "prod",
               cfg |-> [aliases |-> {"production"}, hpa |-> Put(hpa, "cpu_utilization_target", I(70)),
                        karpenter |-> [capacity_type |-> S("spot")]]],
              [key |-> "dev", cfg |-> [hpa |-> [min_replicas |-> I(1), max_replicas |-> I(1)]]]>>,
         applications |-> [payment_worker |-> [prod |-> [hpa |-> override]]]]]

\* what a legacy configuration may carry beside scaling_suggestions: nothing,
\* or the four blocks of the layered path
LayeredBlocks ==
    {EmptyDict} \cup
    {[k \in {"fallback_strategies", "environment_defaults", "application_type_patterns",
             "organization_policies"} |-> LayeredConfig(FALSE, l, l, l, cost)[k]] :
        l \in {[scaling_configuration |-> [min_replicas |-> I(1)],
                resource_sizing |-> [cpu_limit |-> S("2")],
                infrastructure |-> [capacity_type |-> S("on-demand")]]},
        cost \in {EmptyDict, [capacity_type |-> S("on-demand"), target_cpu |-> I(60)]}}

EnvNames == {"prod", "PROD", "production", "Production", "dev", "qa"}

FullContext(env, da, atype, cost) ==
    [environment |-> env, deployment_name |-> S("payment_worker"),
     architecture |-> S("amd64"), data_availability |-> da,
     inferred_context |-> [application_type |-> atype, cost_optimization |-> cost]]

\* the context of a direct caller that names the environment only
BareContext(env) == [environment |-> env]

AppContexts == {[name |-> "payment_worker"], [name |-> "test-app"]}

\* the requests followed through get_suggestion: the configuration of the
\* engine's tests on the legacy path, and layered configurations
EngineInputs ==
    {<<LegacyConfig(ai, [min_replicas |-> I(2), max_replicas |-> I(10)], EmptyDict),
       BareContext(e), [name |-> "test-app"]>> : ai \in BOOLEAN, e \in {"prod", "qa"}}
    \cup {<<LayeredConfig(ai, base, EmptyDict, [scaling_configuration |-> [max_replicas |-> I(1)]],
                          [capacity_type |-> S("spot")]),
            FullContext("prod", "no_historical_data", "worker_service", "balanced"),
            [name |-> "payment_worker"]>> :
            ai \in BOOLEAN,
            base \in {EmptyDict, [scaling_configuration |-> [min_replicas |-> I(MaxReplica)]]}}

\* the state before the call: nothing computed, built, called or returned
Unstarted ==
    /\ static_suggestion = NoStatic
    /\ llm_client = "none"
    /\ mcp_client = "none"
    /\ llm_calls = 0
    /\ mcp_calls = 0
    /\ messages = <<>>
    /\ pending = 0
    /\ last_call = NoCall
    /\ result = NoResult
    /\ outcome = [state |-> "Running", cause |-> "none"]
    /\ registry = DefaultRegistry
    /\ exec_result = NoExec

Fresh == pc = "start" /\ Unstarted

\* the engine at rest, for the specifications that follow other code
EngineIdle ==
    /\ Unstarted
    /\ pc = "off"
    /\ config = EmptyDict
    /\ deployment_context = EmptyDict
    /\ app_context = EmptyDict

(***************************************************************************)
(* Spec: one get_suggestion call, or a session on the tool registry (the   *)
(* two share no state).  SpecStatic: _generate_static_suggestion alone,    *)
(* over the wide set of configurations.                                    *)
(***************************************************************************)
Init ==
    /\ Fresh
    /\ AvailabilityIdle
    /\ SecretsIdle
    /\ InferenceIdle
    /\ \E in \in EngineInputs :
          config = in[1] /\ deployment_context = in[2] /\ app_context = in[3]

Next ==
    \/ GetSuggestion
    \/ BuildClients
    \/ CallLLM
    \/ ReadToolCall
    \/ RegisterTool
    \/ RegisterHandler
    \/ ExecuteTool

Spec == Init /\ [][Next]_vars

\* a bare call of _generate_static_suggestion
GenerateStatic ==
    /\ pc = "start"
    /\ pc' = "done"
    /\ static_suggestion' =
           _generate_static_suggestion(deployment_context, Get(app_context, "name", None), config)
    /\ UNCHANGED <<other_vars, config, app_context, deployment_context, llm_client, mcp_client,
                   llm_calls, mcp_calls, messages, pending, last_call, result, outcome,
                   registry, exec_result>>

\* layered configurations with every combination of layers, and legacy
\* configurations under every spelling of the environment
InitStatic ==
    /\ Fresh
    /\ AvailabilityIdle
    /\ SecretsIdle
    /\ InferenceIdle
    /\ \/ \E base \in Layers, env \in Layers, app \in Layers, cost \in CostPolicies,
             e \in {"prod", "qa"}, da \in {"no_historical_data", "partial_data"} :
             /\ config = LayeredConfig(FALSE, base, env, app, cost)
             /\ deployment_context = FullContext(e, da, "worker_service", "balanced")
             /\ app_context = [name |-> "payment_worker"]
       \/ \E hpa \in LegacyHpaBlocks, ov \in LegacyHpaBlocks, ac \in AppContexts,
             e \in EnvNames, full \in BOOLEAN, blocks \in LayeredBlocks,
             atype \in {"api_service", "worker_service"} :
             /\ config = LegacyConfig(FALSE, hpa, ov) @@ blocks
             /\ deployment_context =
                    IF full THEN FullContext(e, "full_historical_data", atype, "balanced")
                    ELSE BareContext(e)
             /\ app_context = ac

NextStatic == GenerateStatic

SpecStatic == InitStatic /\ [][NextStatic]_vars

(***************************************************************************)
(* Properties of get_suggestion (Spec).                                    *)
(***************************************************************************)
FlagOn == Get(Get(config, "features", EmptyDict), "enable_ai_shadow_analyst", FALSE)

AIPathFailures ==
    {"client_error", "llm_error", "bad_arguments", "tool_error", "dispatch_error",
     "validation_error"}

\* C1: with the AI flag on, a finished get_suggestion call has returned an
\* envelope {suggestion, suggestion_source} with suggestion_source
\* 'llm_validated' or 'static', whatever failed on the AI path; no failure
\* of the AI path reaches the caller as an exception.
C1_NeverRaises ==
    (pc = "done" /\ FlagOn) =>
        /\ DOMAIN result = {"suggestion", "suggestion_source"}
        /\ result.suggestion_source \in {"llm_validated", "static"}
        /\ outcome.state = "Aborted" =>
               /\ outcome.cause \in AIPathFailures
               /\ result.suggestion_source = "static"

C1_Witness ==
    /\ pc = "done"
    /\ FlagOn
    /\ outcome.state = "Aborted"
    /\ outcome.cause = "bad_arguments"
    /\ llm_calls = 2
    /\ result = StaticEnvelope(static_suggestion)

\* C2: one get_suggestion call makes at most 5 reasoning calls; a call
\* whose every response asked for tools other than the submission tool,
\* none of which failed, ends after exactly 5 reasoning calls, Exhausted,
\* with the static suggestion under suggestion_source 'static'.
C2_FiveRounds ==
    /\ llm_calls <= MaxRounds
    /\ pc = "await" => llm_calls < MaxRounds
    /\ (pc = "done" /\ outcome.state = "Exhausted") =>
           /\ result = StaticEnvelope(static_suggestion)
           /\ outcome.cause \in {"budget", "no_tool_calls"}
           /\ outcome.cause = "budget" =>
                  /\ llm_calls = MaxRounds
                  /\ last_call.name # SubmitTool
                  /\ last_call.id[1] = MaxRounds

C2_Witness ==
    /\ pc = "done"
    /\ outcome = [state |-> "Exhausted", cause |-> "budget"]
    /\ llm_calls = MaxRounds
    /\ mcp_calls = MaxRounds
    /\ result.suggestion_source = "static"

\* C3: when the first tool call of the first response is the submission
\* tool with a schema-valid suggestion, the call is over as Submitted after
\* one reasoning call and no telemetry call, and returns that suggestion
\* (as the schema dumps it) with suggestion_source 'llm_validated'.
C3_SubmitFirstRound ==
    (last_call.id = <<1, 1>> /\ last_call.name = SubmitTool
        /\ last_call.args # BadJson /\ ScalingSuggestionContentValid(last_call.args)) =>
        /\ pc = "done"
        /\ outcome.state = "Submitted"
        /\ llm_calls = 1
        /\ mcp_calls = 0
        /\ result.suggestion_source = "llm_validated"
        /\ result.suggestion = ScalingSuggestionContentDump(last_call.args)
        /\ result.suggestion.hpa.v.minReplicas.v = last_call.args.v.hpa.v.minReplicas.v
        /\ result.suggestion.hpa.v.maxReplicas.v = last_call.args.v.hpa.v.maxReplicas.v

C3_Witness ==
    /\ pc = "done"
    /\ last_call.id = <<1, 1>>
    /\ last_call.name = SubmitTool
    /\ outcome.state = "Submitted"
    /\ llm_calls = 1
    /\ mcp_calls = 0
    /\ result.suggestion_source = "llm_validated"
    /\ result.suggestion.hpa.v.minReplicas = I(1)
    /\ result.suggestion.hpa.v.maxReplicas = I(MaxReplica)

\* the replica counts a submission carries, when both are integers
SubmittedInverted ==
    /\ last_call.name = SubmitTool
    /\ last_call.args # BadJson
    /\ last_call.args.t = "dict"
    /\ "hpa" \in DOMAIN last_call.args.v
    /\ LET h == last_call.args.v.hpa.v
       IN  /\ {"minReplicas", "maxReplicas"} \subseteq DOMAIN h
           /\ IntOk(h.minReplicas) /\ IntOk(h.maxReplicas)
           /\ h.minReplicas.v > h.maxReplicas.v

\* C4: no envelope tagged 'llm_validated' carries minReplicas > maxReplicas;
\* a submission with minReplicas > maxReplicas is rejected: the call ends
\* Aborted with the static suggestion, and nothing of the submission (clamped
\* or repaired) is returned.
C4_NoInvertedReplicas ==
    /\ result.suggestion_source = "llm_validated" =>
           result.suggestion.hpa.v.minReplicas.v <= result.suggestion.hpa.v.maxReplicas.v
    /\ SubmittedInverted =>
           /\ pc = "done"
           /\ outcome = [state |-> "Aborted", cause |-> "validation_error"]
           /\ result = StaticEnvelope(static_suggestion)

C4_Witness ==
    /\ SubmittedInverted
    /\ pc = "done"
    /\ last_call.args.v.hpa.v.minReplicas = I(MaxReplica)
    /\ last_call.args.v.hpa.v.maxReplicas = I(1)
    /\ result.suggestion_source = "static"

\* C5 (SpecStatic): whatever the configuration and the deployment context,
\* the suggestion _generate_static_suggestion returns has integer (non-null)
\* minReplicas and maxReplicas with minReplicas <= maxReplicas, and is not
\* empty.
C5_StaticAlwaysOrdered ==
    pc = "done" =>
        /\ "hpa" \in DOMAIN static_suggestion
        /\ {"minReplicas", "maxReplicas"} \subseteq DOMAIN static_suggestion.hpa.v
        /\ static_suggestion.hpa.v.minReplicas.t = "int"
        /\ static_suggestion.hpa.v.maxReplicas.t = "int"
        /\ static_suggestion.hpa.v.minReplicas.v <= static_suggestion.hpa.v.maxReplicas.v

\* what get_suggestion returns for the same three arguments, the flag off
FlagOffResult ==
    StaticEnvelope(_generate_static_suggestion(
        deployment_context, Get(app_context, "name", None),
        [config EXCEPT !["features"] = [enable_ai_shadow_analyst |-> FALSE]]))

\* C6: with the AI flag off no client is ever built and no reasoning or
\* telemetry call is ever made, and the finished call has returned the
\* static suggestion with suggestion_source 'static'.
C6_FlagOffStatic ==
    ~ FlagOn =>
        /\ llm_client = "none" /\ mcp_client = "none"
        /\ llm_calls = 0 /\ mcp_calls = 0
        /\ pc \in {"start", "done", "registry"}
        /\ pc = "done" =>
               /\ outcome.state = "Disabled"
               /\ result.suggestion_source = "static"
               /\ result.suggestion =
                      _generate_static_suggestion(deployment_context,
                                                  Get(app_context, "name", None), config)

C6_Witness ==
    /\ ~ FlagOn
    /\ pc = "done"
    /\ outcome.state = "Disabled"
    /\ llm_client = "none" /\ mcp_client = "none"
    /\ result.suggestion_source = "static"
    /\ result.suggestion.hpa.v.minReplicas = I(2)

\* C7: the static suggestion is in hand before a client is built or a call
\* is made, and a call that ended Exhausted or Aborted has returned exactly
\* it: the envelope get_suggestion returns for the same config, app_context
\* and deployment_context with the flag off.
C7_StaticFirst ==
    /\ (pc \in {"clients", "await", "tools"} \/ llm_client = "built"
           \/ llm_calls > 0 \/ mcp_calls > 0) =>
           static_suggestion =
               _generate_static_suggestion(deployment_context,
                                           Get(app_context, "name", None), config)
    /\ outcome.state \in {"Exhausted", "Aborted"} =>
           /\ pc = "done"
           /\ result = StaticEnvelope(static_suggestion)
           /\ result = FlagOffResult

C7_Witness ==
    /\ pc = "done"
    /\ outcome.state = "Exhausted"
    /\ llm_calls = 3
    /\ mcp_calls = 2
    /\ result = FlagOffResult

\* the call read last, no reasoning call made since, names neither the
\* submission tool nor an attribute of the mcp client, and its arguments
\* are well-formed JSON
UnknownToolCalled ==
    /\ last_call # NoCall
    /\ last_call.id[1] = llm_calls
    /\ last_call.name \notin GatewayAttrs \cup {SubmitTool}
    /\ last_call.args # BadJson

\* the engine's half of C8: the call does not abort the loop; the tool
\* message "Error: Tool not found." with the call's id is the last of the
\* conversation; the next call of the response is read when there is one,
\* else the next round is asked for when fewer than 5 were, else the call
\* ends Exhausted
UnknownToolRecovered ==
    UnknownToolCalled =>
        /\ outcome.state # "Aborted"
        /\ pc \in {"tools", "await"} =>
               /\ messages[Len(messages)] =
                      [role |-> "tool", tool_call_id |-> last_call.id,
                       name |-> last_call.name, content |-> ToolNotFound]
               /\ LET asked == messages[Len(messages) - last_call.id[2]].tool_call_ids
                  IN  /\ last_call.id = asked[last_call.id[2]]
                      /\ pc = "tools" <=> last_call.id[2] < Len(asked)
               /\ pc = "await" => llm_calls < MaxRounds
        /\ pc = "done" =>
               /\ outcome = [state |-> "Exhausted", cause |-> "budget"]
               /\ llm_calls = MaxRounds

C9_Original ==
    /\ (exec_result # NoExec /\ exec_result.handler = "submission"
           /\ ~ HpaRequirementsValid(Get(exec_result.kwargs, "hpa", Missing))) =>
           /\ exec_result.kind = "return"
           /\ "error" \in DOMAIN exec_result.did.value
           /\ "suggestion_source" \notin DOMAIN exec_result.did.value
    /\ (last_call.name = SubmitTool /\ last_call.args # BadJson
           /\ ~ ScalingSuggestionContentValid(last_call.args)) =>
           outcome.state # "Aborted"

\* C10: an exception from llm_client.call or from a method of the mcp
\* client ends the call at once as Aborted with the static suggestion under
\* suggestion_source 'static'; a call that has ended makes no further
\* reasoning or telemetry call.
C10_BackendErrorAborts ==
    /\ [](outcome.cause \in {"llm_error", "tool_error"} =>
             /\ pc = "done"
             /\ outcome.state = "Aborted"
             /\ result = StaticEnvelope(static_suggestion))
    /\ [][(outcome.cause \in {"llm_error", "tool_error"} \/ pc = "done") =>
             /\ llm_calls' = llm_calls
             /\ mcp_calls' = mcp_calls
             /\ pc' = "done"]_vars
    /\ [][(outcome'.cause = "tool_error" /\ outcome.cause # "tool_error") =>
             /\ pc = "tools" /\ pc' = "done"
             /\ mcp_calls' = mcp_calls + 1 /\ llm_calls' = llm_calls]_vars
    /\ [][(outcome'.cause = "llm_error" /\ outcome.cause # "llm_error") =>
             /\ pc = "await" /\ pc' = "done"
             /\ llm_calls' = llm_calls + 1 /\ mcp_calls' = mcp_calls]_vars

C10_Witness ==
    /\ pc = "done"
    /\ outcome = [state |-> "Aborted", cause |-> "tool_error"]
    /\ llm_calls = 2
    /\ mcp_calls = 2
    /\ result = StaticEnvelope(static_suggestion)

\* the reasoning responses filed in the conversation
AssistantTurns == Len(SelectSeq(messages, LAMBDA m : m.role = "assistant"))

\* C11: a reasoning response without tool calls ends the call at once as
\* Exhausted with the static suggestion under suggestion_source 'static';
\* the step appends nothing to the conversation (the response itself is not
\* filed), and no reasoning or telemetry call follows, whatever rounds remain.
C11_NoToolCallsExhausts ==
    /\ [](outcome.cause = "no_tool_calls" =>
             /\ pc = "done"
             /\ outcome.state = "Exhausted"
             /\ result = StaticEnvelope(static_suggestion)
             /\ AssistantTurns = llm_calls - 1
             /\ messages[Len(messages)].role # "assistant")
    /\ [][(outcome'.cause = "no_tool_calls" /\ outcome.cause # "no_tool_calls") =>
             /\ pc = "await"
             /\ messages' = messages
             /\ llm_calls' = llm_calls + 1
             /\ mcp_calls' = mcp_calls]_vars
    /\ [][outcome.cause = "no_tool_calls" =>
             UNCHANGED <<llm_calls, mcp_calls, messages, result>>]_vars

C11_Witness ==
    /\ pc = "done"
    /\ outcome.cause = "no_tool_calls"
    /\ llm_calls = 2
    /\ llm_calls < MaxRounds
    /\ Len(messages) = 3
    /\ messages[3].role = "tool"
    /\ result.suggestion_source = "static"

\* C12 as stated: whatever get_suggestion returns, tagged 'llm_validated'
\* or 'static', from the legacy or the layered static path, passes the
\* schema check the AI path applies (hpa, resources and karpenter fields
\* present and typed, minReplicas <= maxReplicas).
C12_Original ==
    pc = "done" =>
        /\ result.suggestion_source \in {"llm_validated", "static"}
        /\ ScalingSuggestionContentValid(Dct(result.suggestion))

\* C13 as stated: a submission whose targetCPUUtilizationPercentage is
\* outside 1..100 is rejected, and no envelope tagged 'llm_validated'
\* carries such a value.
C13_Original ==
    /\ result.suggestion_source = "llm_validated" =>
           result.suggestion.hpa.v.targetCPUUtilizationPercentage.v \in 1..100
    /\ (pc = "done" /\ last_call.name = SubmitTool /\ last_call.args \in OddCpuArgs) =>
           outcome.state = "Aborted"

(***************************************************************************)
(* SpecAvailability: one _check_data_availability call.  SpecClassifier:   *)
(* the thresholds alone, over values on and around them.  SpecSecrets: the *)
(* threads of one process calling get_secret; SpecSecretsSeq: one thread.  *)
(***************************************************************************)
InitAvailability ==
    /\ EngineIdle
    /\ SecretsIdle
    /\ InferenceIdle
    /\ av_pc = "start"
    /\ entity_id = None
    /\ historical_data = EmptyDict
    /\ days_available = 0
    /\ completeness = 0
    /\ availability = NotChecked
    /\ av_error = None
    /\ selector_log = <<>>

NextAvailability ==
    \/ CheckDataAvailability
    \/ DiscoverEntity
    \/ QueryHistoricalMetrics
    \/ AnalyseCompleteness
    \/ Classify

SpecAvailability == InitAvailability /\ [][NextAvailability]_vars

DayValues == {0, 50, 99, 100, 101, 250, 499, 500, 501, 700}

PercentValues == {0, 100, 299, 300, 301, 500, 799, 800, 801, 1000}

InitClassifier ==
    /\ EngineIdle
    /\ SecretsIdle
    /\ InferenceIdle
    /\ av_pc = "classify"
    /\ entity_id = S("SERVICE-1")
    /\ historical_data = EmptyDict
    /\ days_available \in DayValues
    /\ completeness \in PercentValues
    /\ availability = NotChecked
    /\ av_error = None
    /\ selector_log = <<>>

NextClassifier == Classify

SpecClassifier == InitClassifier /\ [][NextClassifier]_vars

InitSecretsOf(threads) ==
    /\ EngineIdle
    /\ AvailabilityIdle
    /\ InferenceIdle
    /\ CACHED_SECRETS = None
    /\ secret_string \in SecretStrings
    /\ sm_pc = [c \in Callers |-> IF c \in threads THEN "idle" ELSE "off"]
    /\ sm_fetched = [c \in Callers |-> NoFetch]
    /\ sm_returned = [c \in Callers |-> NotReturned]
    /\ sm_calls = [c \in Callers |-> 0]
    /\ backend_log = <<>>

NextSecrets ==
    \E c \in Callers :
        \/ GetSecret(c)
        \/ MakeClient(c)
        \/ FetchSecret(c)
        \/ StoreSecret(c)
        \/ ReturnSecret(c)

InitSecrets == InitSecretsOf(Callers)

SpecSecrets == InitSecrets /\ [][NextSecrets]_vars

InitSecretsSeq == InitSecretsOf({1})

SpecSecretsSeq == InitSecretsSeq /\ [][NextSecrets]_vars

\* the status the classifier returned
Status == availability[1]

Statuses == {"full_historical_data", "partial_data", "no_historical_data"}

\* C15: the classifier never lets a backend failure out: when the gateway
\* cannot be built, or the discovery or the historical query or the reading
\* of its answer fails, the call still returns, and what it returns is
\* ('no_historical_data', None).
C15_FailureDegrades ==
    /\ av_pc = "done" => Status \in Statuses
    /\ av_error # None => (av_pc = "done" /\ availability = NoHistoricalData)

C15_Witness ==
    /\ av_pc = "done"
    /\ av_error = [t |-> "exception", why |-> "query_error"]
    /\ entity_id # None
    /\ availability = NoHistoricalData

\* C14: the classifier's thresholds: at least 5 days and at least 80%
\* completeness is full_historical_data; otherwise at least 1 day and at
\* least 30% is partial_data; otherwise no_historical_data.  So 5.00 days at
\* 80.0% is full, 4.99 days at 80.0% is partial, 1.00 day at 29.9% is none.
C14_Thresholds ==
    av_pc = "done" =>
        /\ Status = "full_historical_data"
              <=> (days_available >= 500 /\ completeness >= 800)
        /\ Status = "partial_data"
              <=> /\ ~(days_available >= 500 /\ completeness >= 800)
                  /\ days_available >= 100 /\ completeness >= 300
        /\ Status = "no_historical_data"
              <=> /\ ~(days_available >= 500 /\ completeness >= 800)
                  /\ ~(days_available >= 100 /\ completeness >= 300)
        /\ (days_available = 500 /\ completeness = 800) => Status = "full_historical_data"
        /\ (days_available = 499 /\ completeness = 800) => Status = "partial_data"
        /\ (days_available = 100 /\ completeness = 299) => Status = "no_historical_data"

C14_Witness ==
    /\ av_pc = "done"
    /\ days_available = 499
    /\ completeness = 800
    /\ Status = "partial_data"

(***************************************************************************)
(* SpecInference: _infer_application_type over one-part names and names of *)
(* two parts joined by a hyphen.                                           *)
(***************************************************************************)
NameParts ==
    {<<"p","a","y","m","e","n","t">>,
     <<"w","o","r","k","e","r">>,
     <<"W","o","r","k","e","r">>,
     <<"a","p","i">>,
     <<"w","e","b">>,
     <<"s","e","r","v","i","c","e">>,
     <<"c","a","r","t">>,
     <<"b","u","i","l","d">>,
     <<"q","u","e","u","e">>,
     <<"U","I">>,
     <<"J","o","b">>}

AppNames ==
    NameParts \cup {a \o <<"-">> \o b : a \in NameParts, b \in NameParts}

InitInference ==
    /\ EngineIdle
    /\ AvailabilityIdle
    /\ SecretsIdle
    /\ inf_pc = "start"
    /\ app_name \in AppNames
    /\ app_type = "none"

NextInference == InferApplicationType

SpecInference == InitInference /\ [][NextInference]_vars

(***************************************************************************)
(* Properties of _generate_static_suggestion (SpecStatic), continued.      *)
(***************************************************************************)
OnLayeredPath ==
    Get(deployment_context, "data_availability", "full_historical_data")
        \in {"no_historical_data", "partial_data"}

\* the four layers the configuration holds for the request, in merge order;
\* the cost policy's capacity_type and target_cpu are fields of the
\* infrastructure and scaling_configuration blocks
RequestLayers ==
    LET inferred == Get(deployment_context, "inferred_context", EmptyDict)
        cost == Get(Get(Get(config, "organization_policies", EmptyDict),
                        "cost_optimization", EmptyDict),
                    Get(inferred, "cost_optimization", "balanced"), EmptyDict)
    IN  <<Get(Get(config, "fallback_strategies", EmptyDict),
              IF deployment_context["data_availability"] = "no_historical_data"
              THEN "new_deployment" ELSE "partial_data", EmptyDict),
          Get(Get(config, "environment_defaults", EmptyDict),
              Lower(Get(deployment_context, "environment", "")), EmptyDict),
          Get(Get(config, "application_type_patterns", EmptyDict),
              Get(inferred, "application_type", "api_service"), EmptyDict),
          [infrastructure |-> [k \in DOMAIN cost \cap {"capacity_type"} |-> cost[k]],
           scaling_configuration |-> [k \in DOMAIN cost \cap {"target_cpu"} |-> cost[k]]]>>

\* the value of block.key in the last layer that defines it, or the default
LastDefined(block, key, default) ==
    LET ls == RequestLayers
        defining == {i \in 1..4 : block \in DOMAIN ls[i] /\ key \in DOMAIN ls[i][block]}
    IN  IF defining = {} THEN default
        ELSE ls[CHOOSE i \in defining : \A j \in defining : j <= i][block][key]

C16_ButInfrastructure ==
    (pc = "done" /\ OnLayeredPath) =>
        /\ static_suggestion.hpa.v.minReplicas
              = LastDefined("scaling_configuration", "min_replicas", I(2))
        /\ static_suggestion.hpa.v.maxReplicas
              = LastDefined("scaling_configuration", "max_replicas", I(6))
        /\ static_suggestion.hpa.v.targetCPUUtilizationPercentage
              = LastDefined("scaling_configuration", "target_cpu", I(70))
        /\ static_suggestion.hpa.v.resources.v.cpuLimit
              = LastDefined("resource_sizing", "cpu_limit", S("500m"))

RequestEnvironment == Get(deployment_context, "environment", "")

LegacyEnvironments ==
    Get(Get(config, "scaling_suggestions", EmptyDict), "environments", <<>>)

\* the configured environment whose name is 'prod'
ProdConfig ==
    LegacyEnvironments[CHOOSE i \in DOMAIN LegacyEnvironments :
                           LegacyEnvironments[i].key = "prod"].cfg

HasAppOverride ==
    Truthy(LegacyEnvOverride(Get(config, "scaling_suggestions", EmptyDict),
                             Get(app_context, "name", None), Lower(RequestEnvironment)))

\* C17: on the legacy path, with environment 'prod' configured with the
\* alias 'production', a request for 'production' (in any letter case)
\* resolves to the base config of 'prod', as a request for 'prod' does: the
\* result of a request that has no application override carries the values
\* of that base config.
C17_AliasResolves ==
    (pc = "done" /\ ~OnLayeredPath
        /\ RequestEnvironment \in {"prod", "PROD", "production", "Production"}) =>
        /\ "production" \in ProdConfig.aliases
        /\ ~HasAppOverride =>
              /\ static_suggestion.hpa.v.minReplicas
                    = Get(ProdConfig.hpa, "min_replicas", None)
              /\ static_suggestion.hpa.v.maxReplicas
                    = Get(ProdConfig.hpa, "max_replicas", None)
              /\ static_suggestion.hpa.v.targetCPUUtilizationPercentage
                    = ProdConfig.hpa.cpu_utilization_target
              /\ static_suggestion.karpenter.v[CapacityKey]
                    = ProdConfig.karpenter.capacity_type

C17_Witness ==
    /\ pc = "done"
    /\ ~OnLayeredPath
    /\ RequestEnvironment = "Production"
    /\ ~HasAppOverride
    /\ static_suggestion.hpa.v.targetCPUUtilizationPercentage = I(70)
    /\ static_suggestion.hpa.v.minReplicas = I(MaxReplica)
    /\ static_suggestion.karpenter.v[CapacityKey] = S("spot")

\* the configuration with nothing but the flag and scaling_suggestions
LegacyOnly(cfg) ==
    [k \in DOMAIN cfg \cap {"features", "scaling_suggestions"} |-> cfg[k]]

\* the deployment context without the inferred context
NotInferred(dc) ==
    [k \in DOMAIN dc \ {"inferred_context"} |-> dc[k]]

LegacyOverride ==
    LegacyEnvOverride(Get(config, "scaling_suggestions", EmptyDict),
                      Get(app_context, "name", None), Lower(RequestEnvironment))

\* base_config.hpa with env_override.hpa on top
LegacyHpaField(k) ==
    LET base == LegacyBaseConfig(LegacyEnvironments, Lower(RequestEnvironment))
    IN  Get(Get(LegacyOverride, "hpa", EmptyDict), k, Get(Get(base, "hpa", EmptyDict), k, None))

\* C18: with full_historical_data the static result is built from the legacy
\* scaling_suggestions alone, the matched environment config with the
\* application's environment override on top: it is the result for the same
\* request with fallback_strategies, environment_defaults,
\* application_type_patterns, organization_policies and the inferred context
\* taken away.
C18_LegacyFrame ==
    (pc = "done" /\ ~OnLayeredPath) =>
        /\ static_suggestion =
              _generate_static_suggestion(NotInferred(deployment_context),
                                          Get(app_context, "name", None), LegacyOnly(config))
        /\ static_suggestion.hpa.v.minReplicas = LegacyHpaField("min_replicas")
        /\ static_suggestion.hpa.v.maxReplicas = LegacyHpaField("max_replicas")
        /\ static_suggestion.hpa.v.targetCPUUtilizationPercentage
              = LegacyHpaField("cpu_utilization_target")

C18_Witness ==
    /\ pc = "done"
    /\ Get(deployment_context, "data_availability", "") = "full_historical_data"
    /\ deployment_context.inferred_context.application_type = "worker_service"
    /\ "organization_policies" \in DOMAIN config
    /\ config.organization_policies.cost_optimization.balanced # EmptyDict
    /\ config.environment_defaults.prod # EmptyDict
    /\ RequestEnvironment = "prod"
    /\ HasAppOverride
    /\ static_suggestion.karpenter.v[CapacityKey] = S("spot")
    /\ static_suggestion.hpa.v.targetCPUUtilizationPercentage = I(70)

(***************************************************************************)
(* Properties of get_secret (SpecSecrets).                                 *)
(***************************************************************************)
\* what a successful fetch of the backend's secret parses to
FetchedValue == Dct(secret_string.object)

\* a fetch has succeeded and its value is in the cache
Populated ==
    /\ \E i \in DOMAIN backend_log : backend_log[i].ok
    /\ CACHED_SECRETS = FetchedValue

\* C19: once a fetch has succeeded and filled the cache, the cache keeps that
\* value, and every get_secret call that begins afterwards goes straight to
\* returning the cached value, without a request to the backend.
C19_Original ==
    [][Populated =>
          /\ Populated'
          /\ \A c \in Callers : sm_calls'[c] # sm_calls[c] => sm_pc'[c] = "return"]_vars

\* every caller has made its first call, and no call is in progress
FirstCallsOver ==
    \A c \in Callers : sm_calls[c] = 1 /\ sm_pc[c] = "idle"

\* C20: when the first get_secret calls of several callers interleave on an
\* empty cache, each caller gets a mapping back, and if one of their fetches
\* succeeded the cache ends holding the fetched value.
C20_Original ==
    FirstCallsOver =>
        /\ \A c \in Callers : sm_returned[c].t = "dict"
        /\ (\E i \in DOMAIN backend_log : backend_log[i].ok) => CACHED_SECRETS = FetchedValue

\* the same of the callers whose client was built
C20_ClientsBuilt ==
    (FirstCallsOver /\ \A c \in Callers : sm_returned[c].t # "raised") =>
        /\ \A c \in Callers : sm_returned[c].t = "dict"
        /\ (\E i \in DOMAIN backend_log : backend_log[i].ok) => CACHED_SECRETS = FetchedValue

(***************************************************************************)
(* Properties of get_secret in one thread (SpecSecretsSeq).                *)
(***************************************************************************)
SecretKeys == {"API_TOKEN", "API_URL", "OTHER"}

\* the caller's last call went to the backend and that fetch failed
LastFetchFailed ==
    /\ backend_log # <<>>
    /\ ~backend_log[Len(backend_log)].ok

\* C21: get_secret never raises; a call whose backend request failed, or
\* whose secret string is no JSON, returns an empty mapping, on which
\* get_secret_value gives the caller's default for every key.
C21_Original ==
    \A c \in Callers :
        /\ sm_returned[c].t # "raised"
        /\ (sm_pc[c] = "idle" /\ sm_returned[c].t = "dict" /\ LastFetchFailed) =>
              /\ sm_returned[c] = Dct(EmptyDict)
              /\ \A k \in SecretKeys : get_secret_value(sm_returned[c], k, "default") = "default"

\* the second half alone: what a call returns after its fetch failed
C21_FailedFetchEmpty ==
    \A c \in Callers :
        (sm_pc[c] = "idle" /\ sm_returned[c].t = "dict" /\ LastFetchFailed) =>
              /\ sm_returned[c] = Dct(EmptyDict)
              /\ \A k \in SecretKeys : get_secret_value(sm_returned[c], k, "default") = "default"

(***************************************************************************)
(* Properties of _infer_application_type (SpecInference).                  *)
(***************************************************************************)
NameHasApi == AnyIn(ApiPatterns, LowerName(app_name))
NameHasWorker == AnyIn(WorkerPatterns, LowerName(app_name))
NameHasFrontend == AnyIn(FrontendPatterns, LowerName(app_name))

PaymentWorker == <<"p","a","y","m","e","n","t","-","w","o","r","k","e","r">>
WorkerService == <<"w","o","r","k","e","r","-","s","e","r","v","i","c","e">>

\* C22 as stated: a name with an API keyword is api_service, a name with a
\* worker keyword is worker_service, a name with a frontend keyword is
\* frontend_service, and a name with none of them is api_service.
C22_Original ==
    inf_pc = "done" =>
        /\ NameHasApi => app_type = "api_service"
        /\ NameHasWorker => app_type = "worker_service"
        /\ NameHasFrontend => app_type = "frontend_service"
        /\ ~(NameHasApi \/ NameHasWorker \/ NameHasFrontend) => app_type = "api_service"

\* C22 (amended): the keyword groups are tried in the order API, worker,
\* frontend on the lower-cased name and the first group with a keyword in
\* the name decides; a name with no keyword is api_service.  So
\* 'payment-worker' is worker_service and 'worker-service' is api_service.
C22_FirstGroupDecides ==
    inf_pc = "done" =>
        /\ NameHasApi => app_type = "api_service"
        /\ (~NameHasApi /\ NameHasWorker) => app_type = "worker_service"
        /\ (~NameHasApi /\ ~NameHasWorker /\ NameHasFrontend) => app_type = "frontend_service"
        /\ ~(NameHasApi \/ NameHasWorker \/ NameHasFrontend) => app_type = "api_service"
        /\ app_name = PaymentWorker => app_type = "worker_service"
        /\ app_name = WorkerService => app_type = "api_service"

C22_Witness ==
    /\ inf_pc = "done"
    /\ app_name = WorkerService
    /\ NameHasApi /\ NameHasWorker
    /\ app_type = "api_service"

(***************************************************************************)
(* Properties of get_suggestion (Spec), continued.                         *)
(***************************************************************************)
\* the place in the conversation of the last assistant turn
LastAssistantAt ==
    CHOOSE i \in DOMAIN messages :
        /\ messages[i].role = "assistant"
        /\ \A j \in DOMAIN messages : messages[j].role = "assistant" => j <= i

DispatchResults ==
    Len(SelectSeq(messages, LAMBDA m : m.role = "tool" /\ m.content = "result"))

\* C23: within a round the calls are processed in the order of the response:
\* the tool results that follow an assistant turn are those of its first,
\* second, ... call in that order; when a valid submission ends the loop,
\* the calls listed before it in its round have their tool result, and no
\* call listed after it has one or was dispatched to the telemetry gateway.
C23_OrderWithinRound ==
    /\ \A i \in 2..Len(messages) :
          messages[i].role = "tool" =>
             IF messages[i-1].role = "assistant"
             THEN messages[i].tool_call_id = messages[i-1].tool_call_ids[1]
             ELSE /\ messages[i-1].role = "tool"
                  /\ messages[i].tool_call_id =
                        <<messages[i-1].tool_call_id[1], messages[i-1].tool_call_id[2] + 1>>
    /\ outcome.state = "Submitted" =>
          /\ pc = "done"
          /\ last_call.name = SubmitTool
          /\ last_call.id[1] = llm_calls
          /\ last_call.id \in {messages[LastAssistantAt].tool_call_ids[n] :
                                  n \in DOMAIN messages[LastAssistantAt].tool_call_ids}
          /\ Len(messages) = LastAssistantAt + last_call.id[2] - 1
          /\ mcp_calls = DispatchResults

C23_Witness ==
    /\ outcome.state = "Submitted"
    /\ last_call.id[2] = 2
    /\ Len(messages[LastAssistantAt].tool_call_ids) = 3
    /\ messages[Len(messages)].role = "tool"
    /\ messages[Len(messages)].content = "result"
    /\ messages[Len(messages)].tool_call_id = <<llm_calls, 1>>
    /\ mcp_calls = DispatchResults

\* the tool results of the call with this id
ResultsOf(id) ==
    {i \in DOMAIN messages : messages[i].role = "tool" /\ messages[i].tool_call_id = id}

\* the assistant turn at place j is a completed round: all its calls were
\* processed and the loop went on (or ran out of rounds)
CompletedRound(j) ==
    /\ messages[j].role = "assistant"
    /\ \/ \E i \in DOMAIN messages : i > j /\ messages[i].role = "assistant"
       \/ pc = "await"
       \/ outcome = [state |-> "Exhausted", cause |-> "budget"]

WellOrdered ==
    messages # <<>> =>
        /\ messages[1].role = "user"
        /\ \A i \in 2..Len(messages) : messages[i].role \in {"assistant", "tool"}
        /\ \A i \in DOMAIN messages :
              messages[i].role = "tool" =>
                 \E j \in 1..(i - 1) :
                    /\ messages[j].role = "assistant"
                    /\ \E n \in DOMAIN messages[j].tool_call_ids :
                          messages[j].tool_call_ids[n] = messages[i].tool_call_id
        /\ \A j \in DOMAIN messages :
              CompletedRound(j) =>
                 \A n \in DOMAIN messages[j].tool_call_ids :
                    Cardinality(ResultsOf(messages[j].tool_call_ids[n])) = 1

AppendOnly ==
    messages # <<>> =>
        /\ Len(messages') >= Len(messages)
        /\ SubSeq(messages', 1, Len(messages)) = messages

\* C24: the conversation of one call starts with exactly one user message
\* and only grows by appends (no message is removed or changed); every tool
\* result carries the id of a call of an assistant turn before it; every
\* call of a completed round has exactly one tool result.
C24_AppendOnlyOrdered == []WellOrdered /\ [][AppendOnly]_vars

C24_Witness ==
    /\ Len(messages) >= 5
    /\ messages[1].role = "user"
    /\ messages[2].role = "assistant"
    /\ Len(messages[2].tool_call_ids) = 2
    /\ messages[3].content = "result"
    /\ messages[4].content = ToolNotFound
    /\ messages[5].role = "assistant"
    /\ CompletedRound(2)

(***************************************************************************)
(* Properties of discover_entity (SpecAvailability).                       *)
(***************************************************************************)
DiscoveryOver == av_pc \notin {"start", "discover"}

\* C25: discovery queries the selectors in the fixed order exact name, tag
\* by app, namespace with name-contains, tag by deployment; the first
\* selector that finds entities ends it with the first entity found, and
\* none is queried after it; a selector whose request fails in the network
\* counts as no match and the next one is queried; when all four find
\* nothing there is no entity and the result is ('no_historical_data', None).
C25_SelectorOrder ==
    /\ Len(selector_log) <= 4
    /\ \A i \in DOMAIN selector_log :
          /\ selector_log[i].selector =
                <<"entityName", "tag_app", "namespace_entityName_contains", "tag_deployment">>[i]
          /\ i < Len(selector_log) => selector_log[i].did \in {"no_match", "network_error"}
    /\ entity_id # None =>
          /\ selector_log[Len(selector_log)].did = "match"
          /\ entity_id = S(selector_log[Len(selector_log)].found[1])
    /\ (DiscoveryOver /\ selector_log # <<>>
          /\ selector_log[Len(selector_log)].did \in {"no_match", "network_error"}) =>
          /\ Len(selector_log) = 4
          /\ entity_id = None
          /\ av_pc = "done"
          /\ availability = <<"no_historical_data", None>>

C25_Witness ==
    /\ Len(selector_log) = 3
    /\ selector_log[1].did = "no_match"
    /\ selector_log[2].did = "network_error"
    /\ selector_log[3].did = "match"
    /\ selector_log[3].found = <<"SERVICE-2", "SERVICE-1">>
    /\ entity_id = S("SERVICE-2")
    /\ av_pc = "query"

\* the requested metrics that have at least one data point
MetricsWithData ==
    {m \in DOMAIN historical_data : historical_data[m] # None /\ historical_data[m].v >= 1}

\* C26: completeness is the share of the four requested metrics that have
\* data, available_metrics / 4 * 100 (kept in tenths of a percent); when one
\* of the four has data it is 25 and the classification is
\* no_historical_data.
C26_Original ==
    /\ av_pc = "classify" =>
          completeness = (Cardinality(MetricsWithData) * 1000) \div Cardinality(Metrics)
    /\ (av_pc = "done" /\ Cardinality(MetricsWithData) = 1) =>
          availability = <<"no_historical_data", None>>

\* the call read last names neither a catalog tool nor the submission tool
NonCatalogCalled ==
    /\ last_call # NoCall
    /\ last_call.id[1] = llm_calls
    /\ last_call.name \notin CatalogTools \cup {SubmitTool}
    /\ last_call.args # BadJson

\* C27: only the seven catalog tools are invoked on the telemetry gateway:
\* every tool result with a gateway answer is that of a catalog tool, and a
\* call with any other name (another attribute of the gateway included) is
\* answered with the 'tool not found' result and invokes nothing.
C27_Original ==
    /\ \A i \in DOMAIN messages :
          (messages[i].role = "tool" /\ messages[i].content = "result") =>
              messages[i].name \in CatalogTools
    /\ NonCatalogCalled =>
          /\ \E i \in DOMAIN messages : messages[i] = ToolMessage(last_call, ToolNotFound)
          /\ mcp_calls = DispatchResults

\* C28: the arguments of a tool call are parsed before its name is acted
\* on: a call whose arguments are no valid JSON ends the loop as Aborted
\* with the static suggestion, whether it names a gateway tool, the
\* submission tool or an unknown tool; it gets no tool result, and the calls
\* listed after it in the round are not processed.
C28_BadArgumentsAbort ==
    (last_call # NoCall /\ last_call.args = BadJson) =>
        /\ pc = "done"
        /\ outcome = [state |-> "Aborted", cause |-> "bad_arguments"]
        /\ result = StaticEnvelope(static_suggestion)
        /\ ResultsOf(last_call.id) = {}
        /\ Len(messages) = LastAssistantAt + last_call.id[2] - 1
        /\ mcp_calls = DispatchResults

C28_Witness ==
    /\ pc = "done"
    /\ last_call.name = "unknown_tool"
    /\ last_call.args = BadJson
    /\ last_call.id[2] = 2
    /\ Len(messages[LastAssistantAt].tool_call_ids) = 3
    /\ outcome.cause = "bad_arguments"
    /\ result.suggestion_source = "static"

\* a finished call whose fetch failed has left the cache an empty mapping
FailedLeavesEmpty ==
    \A c \in Callers :
        (sm_pc[c] = "idle" /\ sm_returned[c].t = "dict" /\ LastFetchFailed) =>
            CACHED_SECRETS = Dct(EmptyDict)

\* a call that begins returns the cache at once exactly when the cache is a
\* non-empty mapping; otherwise it goes on to the backend
BeginsFetchUnlessNonEmpty ==
    \A c \in Callers :
        sm_calls'[c] # sm_calls[c] =>
            /\ sm_pc'[c] \in {"return", "client"}
            /\ sm_pc'[c] = "return" <=>
                  (CACHED_SECRETS # None /\ CACHED_SECRETS.v # EmptyDict)

\* the store of a successful fetch puts the fetched value into the cache
SuccessReplaces ==
    \A c \in Callers :
        (sm_pc[c] = "store" /\ sm_pc'[c] = "return" /\ sm_fetched[c].ok) =>
            CACHED_SECRETS' = Dct(secret_string.object)

\* C29 (SpecSecretsSeq): a failed fetch is not cached as a final answer: it
\* leaves the cache an empty mapping, the next get_secret call goes to the
\* backend again, and a successful fetch then replaces the empty mapping;
\* only a non-empty cached mapping stops further fetches.
C29_FailureNotFinal ==
    []FailedLeavesEmpty /\ [][BeginsFetchUnlessNonEmpty /\ SuccessReplaces]_vars

C29_Witness ==
    /\ sm_calls[1] = 2
    /\ sm_pc[1] = "idle"
    /\ Len(backend_log) = 2
    /\ ~backend_log[1].ok
    /\ backend_log[2].ok
    /\ CACHED_SECRETS = Dct([API_TOKEN |-> "t0k3n"])
    /\ sm_returned[1] = CACHED_SECRETS

(***************************************************************************)
(* Properties of _generate_static_suggestion (SpecStatic), the aliases.    *)
(***************************************************************************)
\* the override the configuration stores for the application under 'prod'
ProdOverride ==
    LegacyEnvOverride(Get(config, "scaling_suggestions", EmptyDict),
                      Get(app_context, "name", None), "prod")

\* C30: on the legacy path the whole static suggestion is the same whether
\* the request names the environment 'prod' or its alias 'production': it is
\* the suggestion for 'prod', the application's override stored under 'prod'
\* applied on top of the base config.
C30_Original ==
    (pc = "done" /\ ~OnLayeredPath
        /\ RequestEnvironment \in {"prod", "production"}) =>
        /\ static_suggestion =
              _generate_static_suggestion([deployment_context EXCEPT !.environment = "prod"],
                                          Get(app_context, "name", None), config)
        /\ \A k \in DOMAIN Get(ProdOverride, "hpa", EmptyDict) :
              k = "min_replicas" => static_suggestion.hpa.v.minReplicas = ProdOverride.hpa[k]

====
